---- MODULE Spec2Model ----
(***************************************************************************)
(* A model of src/src/index.ts: the Report class (readDataFile, parseLine, *)
(* addIndicator, sortBy, countryOfHighestAverageBewteenYears,               *)
(* yearOfHighestAmongAllCountries) and the main continuation.               *)
(*                                                                         *)
(* JavaScript strings are sequences of one-character strings, so that      *)
(* indexOf, substr, split, parseInt and parseFloat are computed and not    *)
(* assumed.  JavaScript numbers are records [nan, v]: v is an integer and  *)
(* nan marks NaN; averages are exact fractions [nan, num, den].            *)
(***************************************************************************)
EXTENDS Integers, Sequences, FiniteSets, TLC

VARIABLES
    years,        \* Report.years
    indicators,   \* Report.indicators
    gotHeader,    \* the closure variable of readDataFile
    promise,      \* the promise readDataFile returns: [state, reason]
    closed,       \* the readline interface has emitted "close"
    signalled,    \* the first of SIGINT and SIGTSTP to arrive, "none" before
    nlines,       \* number of "line" events delivered so far
    diagnostics,  \* number of "ignored invalid line" messages logged
    thenRan,      \* the continuation given to .then has run
    query,        \* arguments of the last query call
    result,       \* outcome of countryOfHighestAverageBewteenYears
    result2,      \* outcome of yearOfHighestAmongAllCountries
    line,         \* argument of the last "line" event or parseLine call
    fields,       \* the fields a generated line was written from
    cols          \* value returned by the last parseLine call

vars == <<years, indicators, gotHeader, promise, closed, signalled, nlines,
          diagnostics, thenRan, query, result, result2, line, fields, cols>>

readVars == <<years, indicators, gotHeader, promise, closed, signalled, nlines,
              diagnostics, thenRan>>
queryVars == <<query, result, result2>>
parseVars == <<line, fields, cols>>

-----------------------------------------------------------------------------
(* Bounds of the model *)

MaxLines == 3        \* "line" events per run of readDataFile
MaxIndicators == 3   \* indicators of a report handed to the queries
MaxFields == 2       \* fields of a generated line
MaxFieldLen == 2     \* characters of a generated field

-----------------------------------------------------------------------------
(* Characters and string literals of the source *)

Quote == "\""
Comma == ","
Sep == <<Quote, Comma, Quote>>
EmptyString == <<>>
\* the value an expression has when no element of an array or no property
\* of an object is found; it is no string of characters
Undefined == <<"undefined">>

DigitChars == <<"0", "1", "2", "3", "4", "5", "6", "7", "8", "9">>
Digits == {DigitChars[i] : i \in 1..10}
DigitValue(c) == (CHOOSE i \in 1..10 : DigitChars[i] = c) - 1
WhiteSpace == {" "}

CountryName ==
    <<"C","o","u","n","t","r","y"," ","N","a","m","e">>
CountryCode ==
    <<"C","o","u","n","t","r","y"," ","C","o","d","e">>
IndicatorName ==
    <<"I","n","d","i","c","a","t","o","r"," ","N","a","m","e">>
IndicatorCode ==
    <<"I","n","d","i","c","a","t","o","r"," ","C","o","d","e">>
UrbanGrowth ==
    <<"U","r","b","a","n"," ","p","o","p","u","l","a","t","i","o","n"," ",
      "g","r","o","w","t","h"," ","(","a","n","n","u","a","l"," ","%",")">>
CO2Emissions ==
    <<"C","O","2"," ","e","m","i","s","s","i","o","n","s"," ","(","k","t",")">>
NaNString == <<"N","a","N">>

Min(a, b) == IF a <= b THEN a ELSE b
Max(a, b) == IF a >= b THEN a ELSE b

-----------------------------------------------------------------------------
(* String.prototype primitives, with JavaScript's 0-based positions *)

\* s.indexOf(c): position of the first c, -1 when there is none
indexOf(s, c) ==
    IF \E i \in 1..Len(s) : s[i] = c
    THEN (CHOOSE i \in 1..Len(s) : s[i] = c /\ \A j \in 1..(i - 1) : s[j] # c) - 1
    ELSE -1

\* s.lastIndexOf(c): position of the last c, -1 when there is none
lastIndexOf(s, c) ==
    IF \E i \in 1..Len(s) : s[i] = c
    THEN (CHOOSE i \in 1..Len(s) : s[i] = c /\ \A j \in (i + 1)..Len(s) : s[j] # c) - 1
    ELSE -1

\* s.substr(start, length): a negative start counts from the end, the
\* length is clamped to [0, size - start]
substr(s, start, length) ==
    LET size == Len(s)
        from == IF start < 0 THEN Max(size + start, 0) ELSE Min(start, size)
        count == Min(Max(length, 0), size - from)
    IN  IF count <= 0 THEN EmptyString ELSE SubSeq(s, from + 1, from + count)

\* 1-based position of the first occurrence of sep in s, 0 when there is none
FirstMatch(s, sep) ==
    LET hits == {i \in 1..(Len(s) - Len(sep) + 1) : SubSeq(s, i, i + Len(sep) - 1) = sep}
    IN  IF hits = {} THEN 0 ELSE CHOOSE i \in hits : \A j \in hits : i <= j

\* s.split(sep) for a non-empty sep: left to right, non-overlapping
RECURSIVE split(_, _)
split(s, sep) ==
    LET p == FirstMatch(s, sep)
    IN  IF p = 0 THEN <<s>>
        ELSE <<SubSeq(s, 1, p - 1)>> \o split(SubSeq(s, p + Len(sep), Len(s)), sep)

\* a[i] with a 0-based i: undefined past the end
At(a, i) == IF i + 1 \in 1..Len(a) THEN a[i + 1] ELSE Undefined

\* a.slice(begin) for 0 <= begin
slice(a, begin) == SubSeq(a, begin + 1, Len(a))

-----------------------------------------------------------------------------
(* Report.parseLine *)

parseLine_LengthIsLastIndex(l, sep) ==
    split(substr(l, indexOf(l, Quote) + 1, lastIndexOf(l, Quote)), sep)

parseLine(l, sep) ==
    split(substr(l, indexOf(l, Quote) + 1, lastIndexOf(l, Quote) - 1), sep)

-----------------------------------------------------------------------------
(* JavaScript numbers, parseInt, parseFloat and Number-to-string *)

Num(n) == [nan |-> FALSE, v |-> n]
NaN == [nan |-> TRUE, v |-> 0]

\* a + b: NaN is absorbing
Add(a, b) == IF a.nan \/ b.nan THEN NaN ELSE Num(a.v + b.v)

RECURSIVE DecimalValue(_)
DecimalValue(ds) ==
    IF ds = <<>> THEN 0
    ELSE DecimalValue(SubSeq(ds, 1, Len(ds) - 1)) * 10 + DigitValue(ds[Len(ds)])

RECURSIVE NatToString(_)
NatToString(n) ==
    IF n < 10 THEN <<DigitChars[n + 1]>>
    ELSE NatToString(n \div 10) \o <<DigitChars[(n % 10) + 1]>>

\* ToString(number), as used for a property key
NumberToString(x) ==
    IF x.nan THEN NaNString
    ELSE IF x.v < 0 THEN <<"-">> \o NatToString(-x.v)
    ELSE NatToString(x.v)

\* number of leading characters of s that belong to set
PrefixLen(s, set) ==
    LET stops == {i \in 1..Len(s) : s[i] \notin set}
    IN  IF stops = {} THEN Len(s) ELSE (CHOOSE i \in stops : \A j \in stops : i <= j) - 1

\* The signed decimal integer that starts s after leading white space, NaN
\* when there is none.  This is parseInt(s) for every s without a "0x"
\* prefix, and parseFloat(s) for every s whose numeric prefix has no
\* fraction and no exponent (and for undefined, which is parsed as text).
SignedDigits(s) ==
    LET t == SubSeq(s, PrefixLen(s, WhiteSpace) + 1, Len(s))
        signed == t # <<>> /\ t[1] \in {"+", "-"}
        u == IF signed THEN Tail(t) ELSE t
        n == PrefixLen(u, Digits)
        magnitude == DecimalValue(SubSeq(u, 1, n))
    IN  IF n = 0 THEN NaN
        ELSE IF signed /\ t[1] = "-" THEN Num(-magnitude) ELSE Num(magnitude)

parseInt(s) == SignedDigits(s)
parseFloat(s) == SignedDigits(s)

-----------------------------------------------------------------------------
(* JavaScript objects: own properties, with their creation order *)

NewObject == [order |-> <<>>, at |-> <<>>]

Has(o, k) == \E i \in 1..Len(o.order) : o.order[i] = k

\* o[k]
Get(o, k) == IF Has(o, k) THEN o.at[k] ELSE Undefined

\* o[k] = v
Put(o, k, v) ==
    IF Has(o, k) THEN [o EXCEPT !.at[k] = v]
    ELSE [order |-> Append(o.order, k),
          at |-> [x \in {o.order[i] : i \in 1..Len(o.order)} \cup {k} |->
                    IF x = k THEN v ELSE o.at[x]]]

\* a canonical array index: decimal digits without a leading zero
IsIndexKey(k) ==
    /\ Len(k) > 0
    /\ \A i \in 1..Len(k) : k[i] \in Digits
    /\ (Len(k) = 1 \/ k[1] # "0")

RECURSIVE Ascending(_)
Ascending(ks) ==
    IF ks = {} THEN <<>>
    ELSE LET least == CHOOSE k \in ks :
                        \A other \in ks : DecimalValue(k) <= DecimalValue(other)
         IN  <<least>> \o Ascending(ks \ {least})

IsOtherKey(k) == ~IsIndexKey(k)

\* Object.keys(o): the index keys in ascending numeric order, then the
\* other keys in creation order
ObjectKeys(o) ==
    Ascending({o.order[i] : i \in {j \in 1..Len(o.order) : IsIndexKey(o.order[j])}})
        \o SelectSeq(o.order, IsOtherKey)

-----------------------------------------------------------------------------
(* Report.readDataFile: the "line" handler *)

\* indicator.values after the forEach over this.years: year k of the header
\* (k = 1 for the first) takes cols[index] with index = 4 + (k - 1)
RECURSIVE AssignValues_RawLabel(_, _, _, _)
AssignValues_RawLabel(values, ys, cs, k) ==
    IF k > Len(ys) THEN values
    ELSE AssignValues_RawLabel(Put(values, ys[k], At(cs, 3 + k)), ys, cs, k + 1)

RECURSIVE AssignValues(_, _, _, _)
AssignValues(values, ys, cs, k) ==
    IF k > Len(ys) THEN values
    ELSE AssignValues(Put(values, NumberToString(parseInt(ys[k])), At(cs, 3 + k)),
                      ys, cs, k + 1)

\* new Indicator() filled from a row; ncols records cols.length of the row
\* (a history field, not a field of the class)
NewIndicator(cs, ys) ==
    [country |-> At(cs, 0), countryCode |-> At(cs, 1), name |-> At(cs, 2),
     code |-> At(cs, 3), values |-> AssignValues(NewObject, ys, cs, 1),
     ncols |-> Len(cs)]

addIndicator(inds, indicator) == Append(inds, indicator)

\* the header test of the handler
InHeaderBranch_NoFlag(cs, got) == Len(cs) = 0 \/ TRUE

InHeaderBranch(cs, got) == Len(cs) = 0 \/ ~got

\* the arity test of the handler
IsInvalidLine_OffByFour(cs, ys) == Len(cs) < Len(ys)

IsInvalidLine(cs, ys) == Len(cs) < Len(ys) + 4

-----------------------------------------------------------------------------
(* The promise of readDataFile: it settles once *)

Pending == [state |-> "pending", reason |-> "none"]

resolve(p) == IF p.state = "pending" THEN [state |-> "fulfilled", reason |-> "none"] ELSE p

reject(p, why) == IF p.state = "pending" THEN [state |-> "rejected", reason |-> why] ELSE p

-----------------------------------------------------------------------------
(* Report.sortBy: a stable sort under String.prototype.localeCompare *)

LowerCase == <<"a","b","c","d","e","f","g","h","i","j","k","l","m",
               "n","o","p","q","r","s","t","u","v","w","x","y","z">>
UpperCase == <<"A","B","C","D","E","F","G","H","I","J","K","L","M",
               "N","O","P","Q","R","S","T","U","V","W","X","Y","Z">>
\* white space, punctuation and symbols in collation order; they sort
\* before the digits, which sort before the letters
Punctuation == <<" ", "-", ",", ".", Quote, "(", ")", "%", "+">>

Position(seq, c) == CHOOSE i \in 1..Len(seq) : seq[i] = c
Contains(seq, c) == \E i \in 1..Len(seq) : seq[i] = c

\* primary collation weight: letters regardless of case
PrimaryWeight(c) ==
    IF Contains(Punctuation, c) THEN Position(Punctuation, c)
    ELSE IF c \in Digits THEN 20 + DigitValue(c)
    ELSE IF Contains(LowerCase, c) THEN 40 + Position(LowerCase, c)
    ELSE 40 + Position(UpperCase, c)

\* tertiary collation weight: lower case before upper case
TertiaryWeight(c) == IF Contains(UpperCase, c) THEN 1 ELSE 0

\* lexicographic comparison of two sequences of weights: -1, 0 or 1
CompareWeights(wa, wb) ==
    LET n == Min(Len(wa), Len(wb))
        diffs == {i \in 1..n : wa[i] # wb[i]}
        first == CHOOSE i \in diffs : \A j \in diffs : i <= j
    IN  IF diffs # {} THEN (IF wa[first] < wb[first] THEN -1 ELSE 1)
        ELSE IF Len(wa) < Len(wb) THEN -1
        ELSE IF Len(wa) > Len(wb) THEN 1
        ELSE 0

\* a.localeCompare(b): the primary weights decide, then the case
localeCompare(a, b) ==
    LET primary == CompareWeights([i \in 1..Len(a) |-> PrimaryWeight(a[i])],
                                  [i \in 1..Len(b) |-> PrimaryWeight(b[i])])
    IN  IF primary # 0 THEN primary
        ELSE CompareWeights([i \in 1..Len(a) |-> TertiaryWeight(a[i])],
                            [i \in 1..Len(b) |-> TertiaryWeight(b[i])])

\* the field the comparator of sortBy reads
SortKey(ind, sortField) == IF sortField = "name" THEN ind.name ELSE ind.code

\* xs with x put after every element that does not compare greater than x
RECURSIVE InsertSorted(_, _, _)
InsertSorted(xs, x, sortField) ==
    IF xs = <<>> THEN <<x>>
    ELSE IF localeCompare(SortKey(xs[Len(xs)], sortField), SortKey(x, sortField)) <= 0
         THEN Append(xs, x)
    ELSE Append(InsertSorted(SubSeq(xs, 1, Len(xs) - 1), x, sortField), xs[Len(xs)])

\* Array.prototype.sort is stable
RECURSIVE StableSort(_, _)
StableSort(xs, sortField) ==
    IF xs = <<>> THEN <<>>
    ELSE InsertSorted(StableSort(SubSeq(xs, 1, Len(xs) - 1), sortField),
                      xs[Len(xs)], sortField)

sortBy(inds, sortField) ==
    IF sortField \in {"name", "code"} THEN StableSort(inds, sortField) ELSE inds

-----------------------------------------------------------------------------
(* Outcomes of a call *)

\* `from` is the position in indicators of the Indicator object whose
\* field was returned (0 when the value is no field of an Indicator)
Returned(v, i) == [kind |-> "returned", value |-> v, from |-> i]
\* an uncaught TypeError: a property read on null, or reduce of an empty
\* array with no initial value
TypeError == [kind |-> "TypeError", value |-> EmptyString, from |-> 0]
NotCalled == [kind |-> "none", value |-> EmptyString, from |-> 0]

-----------------------------------------------------------------------------
(* Report.countryOfHighestAverageBewteenYears *)

\* positions of the indicators the filter keeps, in order
RECURSIVE filter(_, _, _)
filter(inds, indicatorName, i) ==
    IF i > Len(inds) THEN <<>>
    ELSE (IF inds[i].name = indicatorName THEN <<i>> ELSE <<>>)
             \o filter(inds, indicatorName, i + 1)

\* a for loop of the reducer: the first year i in startYear..endYear with
\* values[i] === "" leaves the loop by `return`
HasEmptyValue(ind, startYear, endYear) ==
    \E i \in startYear..endYear : Get(ind.values, NumberToString(Num(i))) = EmptyString

\* the total a for loop of the reducer accumulates when it runs to its end
RECURSIVE Total(_, _, _)
Total(ind, i, endYear) ==
    IF i > endYear THEN Num(0)
    ELSE Add(parseFloat(Get(ind.values, NumberToString(Num(i)))), Total(ind, i + 1, endYear))

\* a >= b on numbers: false when either is NaN
GreaterEq(a, b) == ~a.nan /\ ~b.nan /\ a.v >= b.v
Greater(a, b) == ~a.nan /\ ~b.nan /\ a.v > b.v

\* The reducer, lines 136-163.  previous and current are positions in inds;
\* 0 is null.  current is never null.
countryReducer_WinnerFirst(inds, previous, current, startYear, endYear) ==
    IF previous = 0 THEN current
    ELSE IF HasEmptyValue(inds[previous], startYear, endYear) THEN current
    ELSE IF HasEmptyValue(inds[current], startYear, endYear) THEN previous
    ELSE IF GreaterEq(Total(inds[current], startYear, endYear),
                      Total(inds[previous], startYear, endYear))
         THEN current ELSE previous

countryReducer_ReturnsCurrent(inds, previous, current, startYear, endYear) ==
    IF previous = 0 THEN current
    ELSE IF HasEmptyValue(inds[current], startYear, endYear) THEN current
    ELSE IF HasEmptyValue(inds[previous], startYear, endYear) THEN current
    ELSE IF GreaterEq(Total(inds[current], startYear, endYear),
                      Total(inds[previous], startYear, endYear))
         THEN current ELSE previous

countryReducer_Strict(inds, previous, current, startYear, endYear) ==
    IF previous = 0 THEN current
    ELSE IF HasEmptyValue(inds[current], startYear, endYear) THEN previous
    ELSE IF HasEmptyValue(inds[previous], startYear, endYear) THEN current
    ELSE IF Greater(Total(inds[current], startYear, endYear),
                    Total(inds[previous], startYear, endYear))
         THEN current ELSE previous

countryReducer(inds, previous, current, startYear, endYear) ==
    IF previous = 0 THEN current
    ELSE IF HasEmptyValue(inds[current], startYear, endYear) THEN previous
    ELSE IF HasEmptyValue(inds[previous], startYear, endYear) THEN current
    ELSE IF GreaterEq(Total(inds[current], startYear, endYear),
                      Total(inds[previous], startYear, endYear))
         THEN current ELSE previous

\* filtered.reduce(reducer, null), from element k on with accumulator acc
RECURSIVE countryReduce(_, _, _, _, _, _)
countryReduce(inds, filtered, k, acc, startYear, endYear) ==
    IF k > Len(filtered) THEN acc
    ELSE countryReduce(inds, filtered, k + 1,
                       countryReducer(inds, acc, filtered[k], startYear, endYear),
                       startYear, endYear)

countryOfHighestAverageBewteenYears(inds, indicatorName, startYear, endYear) ==
    LET winner == countryReduce(inds, filter(inds, indicatorName, 1), 1, 0,
                                startYear, endYear)
    IN  IF winner = 0 THEN TypeError ELSE Returned(inds[winner].country, winner)

-----------------------------------------------------------------------------
(* Report.yearOfHighestAmongAllCountries *)

\* total / count as an exact fraction; count > 0
Divide(total, count) ==
    IF total.nan THEN [nan |-> TRUE, num |-> 0, den |-> 1]
    ELSE [nan |-> FALSE, num |-> total.v, den |-> count]

\* the avg of { total: 0, count: 0, avg: 0 }
ZeroAvg == [nan |-> FALSE, num |-> 0, den |-> 1]

\* a >= b on fractions with positive denominators: false when either is NaN
AvgGreaterEq(a, b) == ~a.nan /\ ~b.nan /\ a.num * b.den >= b.num * a.den

\* the body of the inner forEach, lines 179-192, for one year of one indicator
visitYear_CountsEmpty(averagies, ind, year) ==
    LET created == IF Has(averagies, year) THEN averagies
                   ELSE Put(averagies, year, [total |-> Num(0), count |-> 0, avg |-> ZeroAvg])
        entry == created.at[year]
        raw == Get(ind.values, year)
        total == IF raw = EmptyString THEN entry.total ELSE Add(entry.total, parseFloat(raw))
        count == entry.count + 1
    IN  Put(created, year, [total |-> total, count |-> count, avg |-> Divide(total, count)])

visitYear(averagies, ind, year) ==
    LET created == IF Has(averagies, year) THEN averagies
                   ELSE Put(averagies, year, [total |-> Num(0), count |-> 0, avg |-> ZeroAvg])
        entry == created.at[year]
        total == Add(entry.total, parseFloat(Get(ind.values, year)))
        count == entry.count + 1
    IN  IF Get(ind.values, year) = EmptyString THEN created
        ELSE Put(created, year,
                 [total |-> total, count |-> count,
                  avg |-> IF count # 0 THEN Divide(total, count) ELSE entry.avg])

\* Object.keys(indicator.values).forEach(...), from key k on
RECURSIVE visitIndicator(_, _, _, _)
visitIndicator(averagies, ind, keys, k) ==
    IF k > Len(keys) THEN averagies
    ELSE visitIndicator(visitYear(averagies, ind, keys[k]), ind, keys, k + 1)

\* filtered.forEach(...), from element k on
RECURSIVE accumulate(_, _, _, _)
accumulate(averagies, inds, filtered, k) ==
    IF k > Len(filtered) THEN averagies
    ELSE accumulate(
             visitIndicator(averagies, inds[filtered[k]],
                            ObjectKeys(inds[filtered[k]].values), 1),
             inds, filtered, k + 1)

\* the averagies object after lines 174-193
Averagies(inds, indicatorName) ==
    accumulate(NewObject, inds, filter(inds, indicatorName, 1), 1)

\* The reducer, lines 196-204: an empty string is falsy
yearReducer(averagies, previous, current) ==
    IF previous = EmptyString THEN current
    ELSE IF current = EmptyString THEN previous
    ELSE IF AvgGreaterEq(averagies.at[current].avg, averagies.at[previous].avg) THEN current
    ELSE previous

\* keys.reduce(reducer) with no initial value, from element k on
RECURSIVE yearReduce(_, _, _, _)
yearReduce(averagies, keys, k, acc) ==
    IF k > Len(keys) THEN acc
    ELSE yearReduce(averagies, keys, k + 1, yearReducer(averagies, acc, keys[k]))

yearOfHighestAmongAllCountries(inds, indicatorName) ==
    LET averagies == Averagies(inds, indicatorName)
        keys == ObjectKeys(averagies)
    IN  IF keys = <<>> THEN TypeError
        ELSE Returned(yearReduce(averagies, keys, 2, keys[1]), 0)

-----------------------------------------------------------------------------
(* The input file and the constants of main *)

\* fields joined by the separator token
RECURSIVE Join(_, _)
Join(fs, sep) ==
    IF fs = <<>> THEN EmptyString
    ELSE IF Len(fs) = 1 THEN fs[1]
    ELSE fs[1] \o sep \o Join(Tail(fs), sep)

\* a line of the file: the fields, separated by ",", in one pair of quotes
Row(fs) == <<Quote>> \o Join(fs, Sep) \o <<Quote>>

Y1980 == <<"1","9","8","0">>
Y1981 == <<"1","9","8","1">>
Aruba == <<"A","r","u","b","a">>
ABW == <<"A","B","W">>
Chad == <<"C","h","a","d">>
TCD == <<"T","C","D">>
SPURBGROW == <<"S","P",".","U","R","B",".","G","R","O","W">>
ENATMCO2E == <<"E","N",".","A","T","M",".","C","O","2","E",".","K","T">>

HeaderStart == <<CountryName, CountryCode, IndicatorName, IndicatorCode>>
HeaderFields == HeaderStart \o <<Y1980, Y1981>>

\* the lines a "line" event may carry
InputLines ==
    { EmptyString,                                                \* a blank line
      Row(HeaderFields),                                          \* the header
      Row(HeaderStart \o <<Y1980, Y1980>>),                       \* a repeated year label
      Row(HeaderStart \o <<<<"x">>, Y1981>>),                     \* a label that is no number
      Row(<<Aruba, ABW, UrbanGrowth, SPURBGROW, <<"2">>, <<"4">>>>),
      Row(<<Chad, TCD, CO2Emissions, ENATMCO2E, <<"5">>, EmptyString>>),
      Row(<<Chad, TCD, UrbanGrowth, SPURBGROW, <<"5">>>>),        \* a year short
      <<" ">> \o Row(<<Aruba, ABW, CO2Emissions, ENATMCO2E, <<"2">>, <<"4">>>>) }

\* main, lines 221-223 and 234
name == UrbanGrowth
yearStart == 1980
yearEnd == 1990
name2 == CO2Emissions

-----------------------------------------------------------------------------
(* readDataFile and main as a state machine *)

NoQuery == [fn |-> "none", indicatorName |-> EmptyString, startYear |-> 0, endYear |-> 0]

\* new Report(), readDataFile called: the handlers are registered
Init ==
    /\ years = <<>>
    /\ indicators = <<>>
    /\ gotHeader = FALSE
    /\ promise = Pending
    /\ closed = FALSE
    /\ signalled = "none"
    /\ nlines = 0
    /\ diagnostics = 0
    /\ thenRan = FALSE
    /\ query = NoQuery
    /\ result = NotCalled
    /\ result2 = NotCalled
    /\ line = EmptyString
    /\ fields = <<>>
    /\ cols = <<>>

\* rl.on("line", ...), lines 41-68
OnLine(l) ==
    /\ ~closed
    /\ nlines < MaxLines
    /\ nlines' = nlines + 1
    /\ line' = l
    /\ cols' = parseLine(l, Sep)
    /\ IF InHeaderBranch(cols', gotHeader)
       THEN /\ IF At(cols', 0) = CountryName
               THEN gotHeader' = TRUE /\ years' = years \o slice(cols', 4)
               ELSE UNCHANGED <<gotHeader, years>>
            /\ UNCHANGED <<indicators, diagnostics>>
       ELSE IF IsInvalidLine(cols', years)
       THEN /\ diagnostics' = diagnostics + 1
            /\ UNCHANGED <<gotHeader, years, indicators>>
       ELSE /\ indicators' = addIndicator(indicators, NewIndicator(cols', years))
            /\ UNCHANGED <<gotHeader, years, diagnostics>>
    /\ UNCHANGED <<promise, closed, signalled, thenRan, fields>>
    /\ UNCHANGED queryVars

\* rl.on("close", ...), lines 70-72
OnClose ==
    /\ ~closed
    /\ closed' = TRUE
    /\ promise' = resolve(promise)
    /\ UNCHANGED <<years, indicators, gotHeader, signalled, nlines, diagnostics, thenRan>>
    /\ UNCHANGED queryVars
    /\ UNCHANGED parseVars

\* rl.on("SIGINT", ...), lines 74-76
OnSIGINT ==
    /\ ~closed
    /\ promise' = reject(promise, "interrupted")
    /\ signalled' = IF signalled = "none" THEN "SIGINT" ELSE signalled
    /\ UNCHANGED <<years, indicators, gotHeader, closed, nlines, diagnostics, thenRan>>
    /\ UNCHANGED queryVars
    /\ UNCHANGED parseVars

\* rl.on("SIGTSTP", ...), lines 78-80
OnSIGTSTP ==
    /\ ~closed
    /\ promise' = reject(promise, "stopped")
    /\ signalled' = IF signalled = "none" THEN "SIGTSTP" ELSE signalled
    /\ UNCHANGED <<years, indicators, gotHeader, closed, nlines, diagnostics, thenRan>>
    /\ UNCHANGED queryVars
    /\ UNCHANGED parseVars

\* whether the continuation given to .then may run
Continues_OnAnySettlement(p) == p.state # "pending"

Continues(p) == p.state = "fulfilled"

\* the continuation of main, lines 218-237: a TypeError thrown by the first
\* query ends it before the second
Then ==
    /\ Continues(promise)
    /\ ~thenRan
    /\ thenRan' = TRUE
    /\ indicators' = sortBy(indicators, "code")
    /\ result' = countryOfHighestAverageBewteenYears(indicators', name, yearStart, yearEnd)
    /\ IF result'.kind = "TypeError"
       THEN /\ result2' = NotCalled
            /\ query' = [fn |-> "country", indicatorName |-> name,
                         startYear |-> yearStart, endYear |-> yearEnd]
       ELSE /\ result2' = yearOfHighestAmongAllCountries(indicators', name2)
            /\ query' = [fn |-> "year", indicatorName |-> name2,
                         startYear |-> 0, endYear |-> 0]
    /\ UNCHANGED <<years, gotHeader, promise, closed, signalled, nlines, diagnostics>>
    /\ UNCHANGED parseVars

Next ==
    \/ \E l \in InputLines : OnLine(l)
    \/ OnClose
    \/ OnSIGINT
    \/ OnSIGTSTP
    \/ Then

Spec == Init /\ [][Next]_vars

-----------------------------------------------------------------------------
(* The queries on a report that has been read *)

\* headers: no year column, or the columns 1980 and 1981
YearHeaders == {<<>>, <<Y1980, Y1981>>}

\* cells of a row: no data, numbers, and text that is no number
Cells == {EmptyString, <<"2">>, <<"-", "3">>, <<"x">>}

\* the name and the cells of a row: every choice of cells under the
\* queried name, and one row of another indicator
RowChoices(ys) ==
    {[name |-> UrbanGrowth, cells |-> c] : c \in [1..Len(ys) -> Cells]}
        \cup {[name |-> CO2Emissions, cells |-> [i \in 1..Len(ys) |-> <<"2">>]]}

\* rows alternate between two countries, so a country may have several rows
RowOf(i, choice) ==
    (IF i % 2 = 1 THEN <<Aruba, ABW>> ELSE <<Chad, TCD>>)
        \o (IF choice.name = UrbanGrowth THEN <<UrbanGrowth, SPURBGROW>>
            ELSE <<CO2Emissions, ENATMCO2E>>)
        \o choice.cells

\* the report after the header ys and the rows of `choices` have been read
\* and the input has ended
InitQuery ==
    \E ys \in YearHeaders, n \in 0..MaxIndicators :
        \E choices \in [1..n -> RowChoices(ys)] :
            /\ years = ys
            /\ indicators = [i \in 1..n |-> NewIndicator(RowOf(i, choices[i]), ys)]
            /\ gotHeader = TRUE
            /\ promise = resolve(Pending)
            /\ closed = TRUE
            /\ signalled = "none"
            /\ nlines = n + 1
            /\ diagnostics = 0
            /\ thenRan = FALSE
            /\ query = NoQuery
            /\ result = NotCalled
            /\ result2 = NotCalled
            /\ line = EmptyString
            /\ fields = <<>>
            /\ cols = <<>>

\* year ranges of a call: both columns, the first alone, and a range that
\* reaches past the columns (as main's 1980-1990 does on such a file)
Ranges == {<<1980, 1981>>, <<1980, 1980>>, <<1981, 1982>>}

\* The queries do not change the report: a behaviour makes one call.
CallCountry(indicatorName, startYear, endYear) ==
    /\ query.fn = "none"
    /\ query' = [fn |-> "country", indicatorName |-> indicatorName,
                 startYear |-> startYear, endYear |-> endYear]
    /\ result' = countryOfHighestAverageBewteenYears(indicators, indicatorName,
                                                     startYear, endYear)
    /\ result2' = NotCalled
    /\ UNCHANGED readVars
    /\ UNCHANGED parseVars

CallYear(indicatorName) ==
    /\ query.fn = "none"
    /\ query' = [fn |-> "year", indicatorName |-> indicatorName,
                 startYear |-> 0, endYear |-> 0]
    /\ result2' = yearOfHighestAmongAllCountries(indicators, indicatorName)
    /\ result' = NotCalled
    /\ UNCHANGED readVars
    /\ UNCHANGED parseVars

NextQuery ==
    \/ \E r \in Ranges : CallCountry(name, r[1], r[2])
    \/ CallYear(name)

SpecQuery == InitQuery /\ [][NextQuery]_vars

-----------------------------------------------------------------------------
(* parseLine on generated lines *)

FieldChars == {"a", Comma, Quote}
FieldStrings == UNION {[1..n -> FieldChars] : n \in 0..MaxFieldLen}
FieldSeqs == UNION {[1..n -> FieldStrings] : n \in 1..MaxFields}

InitParse ==
    /\ fields \in FieldSeqs \cup {HeaderFields}
    /\ line = Row(fields)
    /\ cols = <<>>
    /\ years = <<>>
    /\ indicators = <<>>
    /\ gotHeader = FALSE
    /\ promise = Pending
    /\ closed = FALSE
    /\ signalled = "none"
    /\ nlines = 0
    /\ diagnostics = 0
    /\ thenRan = FALSE
    /\ query = NoQuery
    /\ result = NotCalled
    /\ result2 = NotCalled

\* this.parseLine(input, '","'), line 42
CallParseLine ==
    /\ cols = <<>>
    /\ cols' = parseLine(line, Sep)
    /\ UNCHANGED <<line, fields>>
    /\ UNCHANGED readVars
    /\ UNCHANGED queryVars

NextParse == CallParseLine

SpecParse == InitParse /\ [][NextParse]_vars

-----------------------------------------------------------------------------
(* Vocabulary of the claims about the queries *)

\* the raw value of indicator ind for year y
ValueAt(ind, y) == Get(ind.values, NumberToString(Num(y)))

\* positions of the indicators whose name is the queried one
Matching == {i \in 1..Len(indicators) : indicators[i].name = query.indicatorName}

\* ind has an empty-string value for some year of the queried range
EmptyInRange(i) ==
    \E y \in query.startYear..query.endYear : ValueAt(indicators[i], y) = EmptyString

\* matching indicators with complete data in the queried range
CompleteMatching == {i \in Matching : ~EmptyInRange(i)}

\* the sum of indicator i over the queried range, from the last year down
RECURSIVE SumDownTo(_, _)
SumDownTo(i, y) ==
    IF y < query.startYear THEN Num(0)
    ELSE Add(SumDownTo(i, y - 1), parseFloat(ValueAt(indicators[i], y)))
RangeSum(i) == SumDownTo(i, query.endYear)

CountryCalled == query.fn = "country"
YearCalled == query.fn = "year"

\* C1: when some matching indicator has no empty value in the range, the
\* indicator whose country countryOfHighestAverageBewteenYears returns is a
\* matching one with no empty value in the range, wherever the complete and
\* the incomplete candidates stand in the sequence.
C1_NeverSelectsIncomplete ==
    (CountryCalled /\ CompleteMatching # {}) =>
        /\ result.kind = "returned"
        /\ result.from \in CompleteMatching
        /\ result.value = indicators[result.from].country

\* an incomplete candidate stands before and after the complete one selected
C1_Witness ==
    /\ CountryCalled
    /\ result.kind = "returned"
    /\ result.from = 2
    /\ Matching = {1, 2, 3}
    /\ CompleteMatching = {2}

\* C10: the first matching indicator wins unconditionally and a later
\* candidate with an empty value in the range never replaces the winner, so
\* the indicator selected is the first matching one or a complete one, and
\* it is the first matching one when no matching indicator is complete.
C10_IncompleteNeverReplaces ==
    (CountryCalled /\ Matching # {}) =>
        /\ result.kind = "returned"
        /\ result.from \in Matching
        /\ result.value = indicators[result.from].country
        /\ \/ result.from \in CompleteMatching
           \/ \A i \in Matching : result.from <= i
        /\ CompleteMatching = {} => \A i \in Matching : result.from <= i

\* three incomplete candidates: the first is returned
C10_Witness ==
    /\ CountryCalled
    /\ Matching = {1, 2, 3}
    /\ CompleteMatching = {}
    /\ result.kind = "returned"
    /\ result.from = 1

\* every year of the queried range is a column of the matching indicators
RangeHasColumns ==
    \A i \in Matching : \A y \in query.startYear..query.endYear :
        Has(indicators[i].values, NumberToString(Num(y)))

\* complete matching indicators whose sum is a number
NumericSums == {k \in CompleteMatching : ~RangeSum(k).nan}

\* C2 as stated, read in its most lenient way (ranges within the columns,
\* sums that are no number left out of the comparison): when some matching
\* indicator has complete data, the indicator returned is a complete
\* matching one with the maximal sum, the last of them in the sequence when
\* several share it.
C2_Original ==
    (CountryCalled /\ RangeHasColumns /\ NumericSums # {}) =>
        LET sum == [k \in NumericSums |-> RangeSum(k).v]
        IN  /\ result.kind = "returned"
            /\ result.from \in NumericSums
            /\ \A k \in NumericSums : sum[result.from] >= sum[k]
            /\ \A k \in NumericSums : (sum[k] = sum[result.from] => k <= result.from)

\* every complete matching indicator has a sum that is a number
SumsAreNumbers == \A k \in CompleteMatching : ~RangeSum(k).nan

\* C2 (amended): when some matching indicator has complete data and the sum
\* of every complete matching indicator is a number (no value in the range
\* is text that parseFloat cannot read, no year of the range lacks a
\* column), the indicator returned is the complete matching one whose sum
\* is maximal, and the last of them when several share that sum.
C2_LastMaximalSum ==
    (CountryCalled /\ CompleteMatching # {} /\ SumsAreNumbers) =>
        LET sum == [k \in CompleteMatching |-> RangeSum(k).v]
        IN  /\ result.kind = "returned"
            /\ result.from \in CompleteMatching
            /\ result.value = indicators[result.from].country
            /\ \A k \in CompleteMatching : sum[result.from] >= sum[k]
            /\ \A k \in CompleteMatching : (sum[k] = sum[result.from] => k <= result.from)

\* two complete candidates with different values and equal sums: the
\* second is returned
C2_Witness ==
    /\ CountryCalled
    /\ query.startYear < query.endYear
    /\ {1, 2} \subseteq CompleteMatching
    /\ SumsAreNumbers
    /\ indicators[1].values # indicators[2].values
    /\ RangeSum(1) = RangeSum(2)
    /\ result.kind = "returned"
    /\ result.from = 2

\* the outcome of the call made last
Outcome == IF CountryCalled THEN result ELSE result2

\* C3: a query whose indicator name matches no indicator ends in the
\* explicit error NoMatchingIndicator.
C3_NoMatchIsSignalled ==
    (query.fn # "none" /\ Matching = {}) => Outcome.kind = "NoMatchingIndicator"

\* the year keys of the matching indicators
YearKeys ==
    UNION {{indicators[i].values.order[k] : k \in 1..Len(indicators[i].values.order)} :
              i \in Matching}

\* matching indicators with a non-empty value for year key y
WithData(y) == {i \in Matching : Get(indicators[i].values, y) # EmptyString}

RECURSIVE SumOver(_, _)
SumOver(is, y) ==
    IF is = {} THEN Num(0)
    ELSE LET i == CHOOSE j \in is : TRUE
         IN  Add(parseFloat(Get(indicators[i].values, y)), SumOver(is \ {i}, y))

\* the average of year y as a fraction: total of the non-empty values over
\* their count, and the initial 0 when there is none
YearAverage(y) ==
    LET data == WithData(y)
        total == SumOver(data, y)
    IN  IF data = {} THEN [nan |-> FALSE, num |-> 0, den |-> 1, count |-> 0]
        ELSE [nan |-> total.nan, num |-> total.v, den |-> Cardinality(data),
              count |-> Cardinality(data)]

NotLess(a, b) == ~a.nan /\ ~b.nan /\ a.num * b.den >= b.num * a.den

\* C4 as stated, read in its most lenient way (reports with a year column,
\* averages that are no number left out of the comparison): with at least
\* one matching indicator, the year returned has an average >= that of
\* every other year with a non-empty value.
C4_Original ==
    (YearCalled /\ Matching # {} /\ years # <<>>) =>
        LET keys == YearKeys
            average == [y \in keys |-> YearAverage(y)]
        IN  /\ result2.kind = "returned"
            /\ result2.value \in keys
            /\ \A y \in keys :
                   (average[y].count > 0 /\ ~average[y].nan /\ y # result2.value)
                       => NotLess(average[result2.value], average[y])

\* every non-empty value of a matching indicator is read as a number
ValuesAreNumbers ==
    \A i \in Matching : \A k \in 1..Len(indicators[i].values.order) :
        LET raw == indicators[i].values.at[indicators[i].values.order[k]]
        IN  raw # EmptyString => ~parseFloat(raw).nan

\* C4 (amended): with at least one matching indicator, at least one year
\* column, and every non-empty value of the matching indicators readable
\* as a number, the year returned has an average (total of the non-empty
\* values / their count; 0 for a year with no non-empty value) >= the
\* average of every other year with a non-empty value; empty values count
\* in neither total nor count.
C4_HighestAverage ==
    (YearCalled /\ Matching # {} /\ years # <<>> /\ ValuesAreNumbers) =>
        LET keys == YearKeys
            average == [y \in keys |-> YearAverage(y)]
        IN  /\ result2.kind = "returned"
            /\ result2.value \in keys
            /\ \A y \in keys :
                   (average[y].count > 0 /\ y # result2.value)
                       => NotLess(average[result2.value], average[y])

\* the year returned has an empty value that the average leaves out, and
\* its average is strictly the highest
C4_Witness ==
    /\ YearCalled
    /\ Cardinality(Matching) >= 2
    /\ ValuesAreNumbers
    /\ result2.kind = "returned"
    /\ \E i \in Matching : Get(indicators[i].values, result2.value) = EmptyString
    /\ WithData(result2.value) # {}
    /\ \E y \in YearKeys :
           /\ WithData(y) # {}
           /\ ~NotLess(YearAverage(y), YearAverage(result2.value))

-----------------------------------------------------------------------------
(* Claims about readDataFile *)

\* the property keys the year labels of the header are turned into
ParsedKeys == {NumberToString(parseInt(years[k])) : k \in 1..Len(years)}

\* the keys of the values of an indicator
KeysOf(ind) == {ind.values.order[k] : k \in 1..Len(ind.values.order)}

\* a step that delivers a line
LineStep == nlines' = nlines + 1

\* the line delivered has too few fields for the header
ShortLine == Len(parseLine(line', Sep)) < Len(years) + 4

\* C5 as stated: every indicator has exactly years.length values, keyed by
\* what the year labels parse to, also under repeated or non-numeric labels.
C5_Original ==
    \A i \in 1..Len(indicators) :
        /\ Len(indicators[i].values.order) = Len(years)
        /\ KeysOf(indicators[i]) = ParsedKeys

\* C5 (amended): every indicator's values are keyed by exactly the results
\* of parseInt on the year labels (NaN for a label that is no number); there
\* are as many entries as distinct results, which is years.length when the
\* labels parse to distinct results and fewer when a label repeats.
C5_KeyedByParsedLabels ==
    \A i \in 1..Len(indicators) :
        /\ KeysOf(indicators[i]) = ParsedKeys
        /\ Len(indicators[i].values.order) = Cardinality(ParsedKeys)
        /\ Cardinality(ParsedKeys) <= Len(years)
        /\ (Cardinality(ParsedKeys) = Len(years)
                => Len(indicators[i].values.order) = Len(years))

\* a row read under a header whose two year labels are the same
C5_Witness ==
    /\ Len(years) = 2
    /\ years[1] = years[2]
    /\ Len(indicators) >= 1
    /\ Len(indicators[1].values.order) = 1

\* C6: no indicator was built from a line with fewer than years.length + 4
\* fields; such a line, after the header, leaves indicators and years as
\* they were, and the reading goes on (the input stays open, the promise
\* is not settled by it).
C6_Inv == \A i \in 1..Len(indicators) : indicators[i].ncols >= Len(years) + 4
C6_Step ==
    (LineStep /\ gotHeader /\ ShortLine) =>
        /\ indicators' = indicators
        /\ years' = years
        /\ promise' = promise
        /\ closed' = closed
C6_ShortRowsDropped == [](C6_Inv) /\ [][C6_Step]_vars

\* header, a line that is dropped, then a row that is read
C6_Witness ==
    /\ gotHeader
    /\ nlines = 3
    /\ diagnostics = 1
    /\ Len(indicators) = 1
    /\ ~thenRan
    /\ cols = parseLine(line, Sep)
    /\ indicators[1].country = cols[1]

\* C7: a SIGINT or SIGTSTP before the end of the input makes readDataFile
\* fail with "interrupted" or "stopped" (the reason of the first signal),
\* the continuation never runs whatever line and close events follow, and
\* the promise, once settled, never changes.
C7_Inv ==
    /\ signalled = "SIGINT" => promise = [state |-> "rejected", reason |-> "interrupted"]
    /\ signalled = "SIGTSTP" => promise = [state |-> "rejected", reason |-> "stopped"]
    /\ signalled # "none" => (~thenRan /\ result = NotCalled /\ result2 = NotCalled)
C7_Step == promise.state # "pending" => promise' = promise
C7_SignalRejectsOnce == [](C7_Inv) /\ [][C7_Step]_vars

\* a signal, then a row read and the input closed
C7_Witness ==
    /\ signalled = "SIGTSTP"
    /\ closed
    /\ Len(indicators) >= 1
    /\ promise.state = "rejected"

\* C9: before the header nothing is kept; the first line whose first field
\* is "Country Name" sets years to its fields from index 4 on; from then on
\* gotHeader stays and years never changes, and a later such line is read
\* as a data row.
C9_Inv == ~gotHeader => (years = <<>> /\ indicators = <<>>)
C9_Step ==
    LET first == At(parseLine(line', Sep), 0)
    IN  /\ gotHeader => (gotHeader' /\ years' = years)
        /\ (~gotHeader /\ LineStep /\ first # CountryName)
               => (~gotHeader' /\ years' = <<>> /\ indicators' = <<>>)
        /\ (~gotHeader /\ LineStep /\ first = CountryName)
               => /\ gotHeader'
                  /\ years' = SubSeq(parseLine(line', Sep), 5, Len(parseLine(line', Sep)))
                  /\ indicators' = <<>>
        /\ (gotHeader /\ LineStep /\ first = CountryName /\ ~ShortLine)
               => /\ Len(indicators') = Len(indicators) + 1
                  /\ indicators'[Len(indicators')].country = CountryName
        /\ ~LineStep => (gotHeader' = gotHeader /\ years' = years)
C9_TwoStates == [](C9_Inv) /\ [][C9_Step]_vars

\* a second header line was read as a data row
C9_Witness ==
    /\ gotHeader
    /\ years = <<Y1980, Y1981>>
    /\ \E i \in 1..Len(indicators) : indicators[i].country = CountryName

-----------------------------------------------------------------------------
(* Claims about parseLine *)

\* the line has been parsed
Parsed == cols # <<>>

\* positions of the joined fields at which the separator token stands
RECURSIVE SeparatorStarts(_, _, _)
SeparatorStarts(fs, k, offset) ==
    IF k >= Len(fs) THEN {}
    ELSE {offset + Len(fs[k]) + 1}
             \cup SeparatorStarts(fs, k + 1, offset + Len(fs[k]) + Len(Sep))

\* positions of s at which the characters of the separator token occur
TokenStarts(s) == {i \in 1..(Len(s) - 2) : <<s[i], s[i + 1], s[i + 2]>> = Sep}

\* the token occurs between the fields and nowhere else
SeparatedByToken(fs) == TokenStarts(Join(fs, Sep)) = SeparatorStarts(fs, 1, 0)

\* C8: for a line that is one pair of wrapping quotes around fields
\* separated by the token, parseLine returns those fields in order, with no
\* wrapping quote left: what it returns writes back to the same line, and
\* the header line yields its six fields, the last two being the years.
C8_FieldsRecovered ==
    Parsed =>
        /\ Row(cols) = line
        /\ SeparatedByToken(fields) => cols = fields
        /\ fields = HeaderFields
               => (cols = HeaderFields /\ SubSeq(cols, 5, Len(cols)) = <<Y1980, Y1981>>)

\* the header line has been parsed
C8_Witness ==
    /\ Parsed
    /\ fields = HeaderFields
    /\ SeparatedByToken(fields)
    /\ Len(cols) = 6

====
